---- MODULE Spec2Model ----
(***************************************************************************)
(* Table reservations controller (src/app/controllers/reservations.js).   *)
(*                                                                         *)
(* Time is counted in ticks of a quarter of an hour: a start instant is a  *)
(* tick number and a duration is a number of ticks, so that 0.5 h is 2     *)
(* ticks and 6.0 h is 24 ticks.  Guests, times and durations are the       *)
(* values validateCreateReservationParameters obtains after parsing.       *)
(*                                                                         *)
(* The store is the sqlite3 database of the knexfile: one pooled           *)
(* connection, so a knex transaction holds the connection from BEGIN to    *)
(* COMMIT/ROLLBACK and every other statement waits for it.                 *)
(***************************************************************************)
EXTENDS Integers, Sequences, FiniteSets, TLC

\* ---------------------------------------------------------------- bounds
MaxId == 2          \* ids the store hands out before the model stops allocating
MaxStart == 2       \* latest start tick a request may name

\* ------------------------------------------------------ program constants
MIN_GUESTS == 1
MAX_GUESTS == 10
MIN_DURATION == 2       \* 0.5 h in quarter-hour ticks
MAX_DURATION == 24      \* 6.0 h in quarter-hour ticks

Procs == {1, 2}         \* concurrent callers (HTTP requests in flight)
Sequential == {1}       \* the caller of the sequential specification
NoProc == 0
Undefined == 0          \* JavaScript undefined (the id parameter of a create)
InvalidTime == -1       \* a time string testISODate or Date rejects

\* party sizes: below range, both boundaries, one in between, above range
GuestInputs == {0, 1, 3, 10, 11}
TimeInputs == {InvalidTime} \cup (0..MaxStart)
\* durations in quarter hours: 0.25 h, 0.5 h, 6.0 h, 6.25 h
DurationInputs == {1, 2, 24, 25}
IdInputs == 1..MaxId

\* catalog of tables: table id -> capacity
Catalogs == { <<4, 2>> }

VARIABLES
    tables,         \* table id -> capacity (read only)
    reservations,   \* reservation id -> [table_id, start, end, guests]
    nextId,         \* next id the reservations table assigns
    journal,        \* rollback journal of the open transaction
    conn,           \* process holding the pooled connection, or NoProc
    pc,             \* process -> position in its handler
    req,            \* process -> values the open transaction carries
    sent,           \* HTTP response the last step sent, NoResponse if it sent none
    raced           \* process -> did another call commit a row while its call waits

vars == <<tables, reservations, nextId, journal, conn, pc, req, sent, raced>>

NoJournal == [reservations |-> <<>>, nextId |-> 0]
NoReq == [id |-> Undefined, guests |-> 0, start |-> 0, end |-> 0,
          table |-> 0, newId |-> Undefined, err |-> "none"]
NoBody == [id |-> Undefined, guests |-> 0, start |-> 0, end |-> 0, capacity |-> 0]
NoResponse == [to |-> NoProc, status |-> 0, location |-> Undefined, body |-> NoBody]

Response(p, status, location) ==
    [to |-> p, status |-> status, location |-> location, body |-> NoBody]

\* variant: the parameters taken as they come
validateNothing(guests, time, duration) == TRUE

\* variant: the duration range check left out
validateWithoutDurationRange(guests, time, duration) ==
    /\ ~(guests > MAX_GUESTS \/ guests < MIN_GUESTS)
    /\ time # InvalidTime

\* ------------------------------------------------------------ validation
\* variant: only the upper limits checked
validateUpperLimitsOnly(guests, time, duration) ==
    /\ ~(guests > MAX_GUESTS)
    /\ time # InvalidTime
    /\ ~(duration > MAX_DURATION)

validateCreateReservationParameters(guests, time, duration) ==
    /\ ~(guests > MAX_GUESTS \/ guests < MIN_GUESTS)
    /\ time # InvalidTime
    /\ ~(duration > MAX_DURATION \/ duration < MIN_DURATION)

\* ------------------------------------------------------ availability query
onBetween(x, lo, hi) == lo <= x /\ x <= hi

\* variant: the join not restricted to the table's own reservations
JoinOnAnyTable(t, r, start, end) ==
    onBetween(r.start, start, end) \/ onBetween(r.end, start, end)

\* the ON clause of the left join
JoinOn(t, r, start, end) ==
    /\ t = r.table_id
    /\ (onBetween(r.start, start, end) \/ onBetween(r.end, start, end))

\* variant: the capacity filter left out of the query
WhereCapacityAny(t, guests) == TRUE

\* where('tables.capacity', '>=', guests)
WhereCapacity(t, guests) == tables[t] >= guests

\* tables the query returns: capacity >= guests and no joined reservation
FreeTables(start, end, guests) ==
    { t \in DOMAIN tables :
        /\ WhereCapacity(t, guests)
        /\ ~ \E id \in DOMAIN reservations : JoinOn(t, reservations[id], start, end) }

\* orderBy('tables.capacity', 'asc'); equal capacities come in table id order
OrderBefore(t, u) ==
    tables[t] < tables[u] \/ (tables[t] = tables[u] /\ t <= u)

\* variant: the result taken in table id order, the orderBy left out
FirstRowById(S) == CHOOSE t \in S : \A u \in S : t <= u

\* rows[0].id of a non-empty result
FirstRow(S) == CHOOSE t \in S : \A u \in S : OrderBefore(t, u)

\* variant: the where clause of the del() matching every id up to the given one
RemoveUpTo(f, id) == [k \in {j \in DOMAIN f : j > id} |-> f[k]]

\* ---------------------------------------------------------------- store
\* variant: the del() of the old row left out
RemoveNothing(f, id) == f

Remove(f, id) == [k \in (DOMAIN f) \ {id} |-> f[k]]
\* variant: the row written over every stored row as well
PutOverAll(f, id, row) == [k \in (DOMAIN f) \cup {id} |-> row]

Put(f, id, row) == [k \in (DOMAIN f) \cup {id} |-> IF k = id THEN row ELSE f[k]]

Init ==
    /\ tables \in Catalogs
    /\ reservations = <<>>
    /\ nextId = 1
    /\ journal = NoJournal
    /\ conn = NoProc
    /\ pc = [p \in Procs |-> "idle"]
    /\ req = [p \in Procs |-> NoReq]
    /\ sent = NoResponse
    /\ raced = [p \in Procs |-> FALSE]

\* variant: a pool of several connections reading uncommitted rows
ConnectionAlwaysFree == TRUE

\* the pooled connection is not held by a transaction: a statement or a BEGIN
\* is handed the connection only then
ConnectionFree == conn = NoProc

\* A request arrives; its handler waits for the pooled connection.
Call(p) ==
    /\ pc[p] = "idle"
    /\ pc' = [pc EXCEPT ![p] = "pending"]
    /\ sent' = NoResponse
    /\ UNCHANGED <<tables, reservations, nextId, journal, conn, req, raced>>

\* knex.transaction: BEGIN, then the callback up to its first query.
createOrUpdateReservation(p, id, guests, time, duration) ==
    /\ pc[p] = "pending"
    /\ ConnectionFree
    /\ conn' = p
    /\ journal' = [reservations |-> reservations, nextId |-> nextId]
    /\ IF validateCreateReservationParameters(guests, time, duration)
       THEN /\ req' = [req EXCEPT ![p] = [NoReq EXCEPT !.id = id, !.guests = guests,
                                              !.start = time, !.end = time + duration]]
            /\ pc' = [pc EXCEPT ![p] = IF id # Undefined THEN "del" ELSE "select"]
       ELSE /\ req' = [req EXCEPT ![p] = [NoReq EXCEPT !.id = id, !.err = "ValidateError"]]
            /\ pc' = [pc EXCEPT ![p] = "rollback"]
    /\ sent' = NoResponse
    /\ UNCHANGED <<tables, reservations, nextId, raced>>

\* variant: the affectedRows check of the update left out
NoRowDeletedIgnored(id) == FALSE

\* does the del() of the update report affectedRows = 0
NoRowDeleted(id) == id \notin DOMAIN reservations

\* trx('reservations').where('id', id).del() and its continuation
DeleteOld(p) ==
    /\ pc[p] = "del"
    /\ reservations' = Remove(reservations, req[p].id)
    /\ IF NoRowDeleted(req[p].id)
       THEN /\ pc' = [pc EXCEPT ![p] = "rollback"]
            /\ req' = [req EXCEPT ![p].err = "NotFoundError"]
       ELSE /\ pc' = [pc EXCEPT ![p] = "select"]
            /\ req' = req
    /\ sent' = NoResponse
    /\ UNCHANGED <<tables, nextId, journal, conn, raced>>

\* variant: the same error for both call types
NoFreeTableErrorAlwaysNotFound(doUpdate) == "NotFoundError"

\* error thrown when the availability query returns no row
NoFreeTableError(doUpdate) == IF doUpdate THEN "ConflictError" ELSE "NotFoundError"

\* createReservationInTransaction: the select and its continuation
SelectTable(p) ==
    /\ pc[p] = "select"
    /\ LET rows == FreeTables(req[p].start, req[p].end, req[p].guests)
       IN IF rows = {}
          THEN /\ req' = [req EXCEPT ![p].err = NoFreeTableError(req[p].id # Undefined)]
               /\ pc' = [pc EXCEPT ![p] = "rollback"]
          ELSE /\ req' = [req EXCEPT ![p].table = FirstRow(rows)]
               /\ pc' = [pc EXCEPT ![p] = "insert"]
    /\ sent' = NoResponse
    /\ UNCHANGED <<tables, reservations, nextId, journal, conn, raced>>

\* row written by the insert
NewRow(p) ==
    [table_id |-> req[p].table, start |-> req[p].start,
     end |-> req[p].end, guests |-> req[p].guests]

\* id the reservations table assigns to an inserted row
AssignedId == nextId

\* createReservationInTransaction: the insert
InsertReservation(p) ==
    /\ pc[p] = "insert"
    /\ nextId <= MaxId
    /\ reservations' = Put(reservations, AssignedId, NewRow(p))
    /\ nextId' = AssignedId + 1
    /\ req' = [req EXCEPT ![p].newId = AssignedId]
    /\ pc' = [pc EXCEPT ![p] = "commit"]
    /\ sent' = NoResponse
    /\ UNCHANGED <<tables, journal, conn, raced>>

\* id the success handler puts in the Location header: the id parameter
LocationId(p) == req[p].id

\* calls waiting for the connection while p commits its row
RacedAfterCommit(p) ==
    [q \in Procs |-> IF q = p THEN FALSE
                     ELSE IF pc[q] = "pending" THEN TRUE ELSE raced[q]]

\* COMMIT, then the .then handler: 201 with the Location header
Commit(p) ==
    /\ pc[p] = "commit"
    /\ conn' = NoProc
    /\ journal' = NoJournal
    /\ sent' = Response(p, 201, LocationId(p))
    /\ req' = [req EXCEPT ![p] = NoReq]
    /\ pc' = [pc EXCEPT ![p] = "idle"]
    /\ raced' = RacedAfterCommit(p)
    /\ UNCHANGED <<tables, reservations, nextId>>

\* status the .catch handler sends for an error
StatusOf(err) ==
    IF err = "NotFoundError" THEN 404
    ELSE IF err = "ConflictError" THEN 409
    ELSE 400

\* variant: the statements run outside the transaction, nothing is undone
NotRolledBack == [reservations |-> reservations, nextId |-> nextId]

\* store the ROLLBACK leaves
RolledBack == journal

\* ROLLBACK, then the .catch handler
Rollback(p) ==
    /\ pc[p] = "rollback"
    /\ reservations' = RolledBack.reservations
    /\ nextId' = RolledBack.nextId
    /\ conn' = NoProc
    /\ journal' = NoJournal
    /\ sent' = Response(p, StatusOf(req[p].err), Undefined)
    /\ req' = [req EXCEPT ![p] = NoReq]
    /\ pc' = [pc EXCEPT ![p] = "idle"]
    /\ raced' = [raced EXCEPT ![p] = FALSE]
    /\ UNCHANGED <<tables>>

\* variant: 204 whatever the del() affected
DeleteStatusAlways204(affectedRows) == 204

\* status deleteReservation sends for the affectedRows of its del()
DeleteStatus(affectedRows) == IF affectedRows = 0 THEN 404 ELSE 204

\* Reservations.deleteReservation
deleteReservation(p, id) ==
    /\ pc[p] = "pending"
    /\ ConnectionFree
    /\ reservations' = Remove(reservations, id)
    /\ sent' = Response(p, DeleteStatus(IF id \in DOMAIN reservations THEN 1 ELSE 0),
                        Undefined)
    /\ pc' = [pc EXCEPT ![p] = "idle"]
    /\ raced' = [raced EXCEPT ![p] = FALSE]
    /\ UNCHANGED <<tables, nextId, journal, conn, req>>

\* rows of tables inner join reservations where reservations.id = id
JoinedRows(id) ==
    { k \in DOMAIN reservations : k = id /\ reservations[k].table_id \in DOMAIN tables }

ReservationView(id) ==
    [id |-> id, guests |-> reservations[id].guests,
     start |-> reservations[id].start, end |-> reservations[id].end,
     capacity |-> tables[reservations[id].table_id]]

\* Reservations.getReservationInfo
getReservationInfo(p, id) ==
    /\ pc[p] = "pending"
    /\ ConnectionFree
    /\ IF JoinedRows(id) = {}
       THEN sent' = Response(p, 404, Undefined)
       ELSE sent' = [to |-> p, status |-> 200, location |-> Undefined,
                     body |-> ReservationView(id)]
    /\ pc' = [pc EXCEPT ![p] = "idle"]
    /\ raced' = [raced EXCEPT ![p] = FALSE]
    /\ UNCHANGED <<tables, reservations, nextId, journal, conn, req>>

\* Reservations.createReservation
createReservation(p) ==
    \E g \in GuestInputs, t \in TimeInputs, d \in DurationInputs :
        createOrUpdateReservation(p, Undefined, g, t, d)

\* Reservations.updateReservation
updateReservation(p) ==
    \E id \in IdInputs, g \in GuestInputs, t \in TimeInputs, d \in DurationInputs :
        createOrUpdateReservation(p, id, g, t, d)

\* one step of caller p
Step(p) ==
    \/ Call(p)
    \/ createReservation(p)
    \/ updateReservation(p)
    \/ DeleteOld(p)
    \/ SelectTable(p)
    \/ InsertReservation(p)
    \/ Commit(p)
    \/ Rollback(p)
    \/ \E id \in IdInputs : deleteReservation(p, id)
    \/ \E id \in IdInputs : getReservationInfo(p, id)

\* one caller, its requests one after another
Next == \E p \in Sequential : Step(p)

Spec == Init /\ [][Next]_vars

\* two callers, their requests in flight together
NextConc == \E p \in Procs : Step(p)

SpecConc == Init /\ [][NextConc]_vars

\* ------------------------------------------------------------ properties

\* inclusive overlap of two intervals: they share at least one instant
overlaps(a_start, a_end, b_start, b_end) == a_start <= b_end /\ b_start <= a_end

\* reservation ids bound to table t
BoundTo(t) == { id \in DOMAIN reservations : reservations[id].table_id = t }

\* table t holds a reservation sharing an instant with [start, end]
Occupied(t, start, end) ==
    \E id \in BoundTo(t) :
        overlaps(reservations[id].start, reservations[id].end, start, end)

\* table t qualifies for a party of guests in [start, end]
Qualifies(t, start, end, guests) ==
    tables[t] >= guests /\ ~Occupied(t, start, end)

\* C1: no two distinct reservations bound to the same table overlap (inclusive
\* test), the case of one interval strictly inside the other included.
NoDoubleBooking ==
    \A a, b \in DOMAIN reservations :
        (a # b /\ reservations[a].table_id = reservations[b].table_id)
            => ~overlaps(reservations[a].start, reservations[a].end,
                         reservations[b].start, reservations[b].end)

\* C4: a create goes on to insert only when some table with enough capacity
\* holds no reservation sharing an instant with the requested window; when
\* every such table is occupied it fails and inserts nothing.
OverlapRejection ==
    \A p \in Procs :
        (pc[p] = "insert" /\ req[p].id = Undefined)
            => \E t \in DOMAIN tables :
                   Qualifies(t, req[p].start, req[p].end, req[p].guests)

\* C5: every reservation's party size is at most the capacity of its table.
CapacityInvariant ==
    \A id \in DOMAIN reservations :
        reservations[id].guests <= tables[reservations[id].table_id]

\* C5 witness: a party was seated at a table while a table too small for it
\* stood free.
CapacityWitness ==
    \E id \in DOMAIN reservations : \E u \in DOMAIN tables :
        /\ conn = NoProc
        /\ tables[u] < reservations[id].guests
        /\ BoundTo(u) = {}
        /\ reservations[id].guests <= tables[reservations[id].table_id]

\* C6: the table an allocation selects has the least capacity among the
\* tables that qualify at that moment.
TightestFit ==
    \A p \in Procs :
        pc[p] = "insert"
            => \A u \in DOMAIN tables :
                   Qualifies(u, req[p].start, req[p].end, req[p].guests)
                       => tables[req[p].table] <= tables[u]

\* C6 witness: two tables of different capacity qualify and the smaller one,
\* which is not the first in id order, is selected.
TightestFitWitness ==
    \E p \in Procs : \E u \in DOMAIN tables :
        /\ pc[p] = "insert"
        /\ Qualifies(u, req[p].start, req[p].end, req[p].guests)
        /\ Qualifies(req[p].table, req[p].start, req[p].end, req[p].guests)
        /\ tables[req[p].table] < tables[u]
        /\ u < req[p].table

\* id of the row committed last before the open transaction began
RacedRow == journal.nextId - 1

\* tables with room for both parties that no third reservation occupies in
\* either window
Candidates(a, b) ==
    { t \in DOMAIN tables :
        /\ tables[t] >= reservations[a].guests
        /\ tables[t] >= reservations[b].guests
        /\ ~ \E id \in (BoundTo(t) \ {a, b}) :
               \/ overlaps(reservations[id].start, reservations[id].end,
                           reservations[a].start, reservations[a].end)
               \/ overlaps(reservations[id].start, reservations[id].end,
                           reservations[b].start, reservations[b].end) }

\* C2: two allocations in flight together, with overlapping windows and a
\* single table left that fits both, never both get that table.
ConcurrentAllocationsExclusive ==
    \A q \in Procs :
        (/\ pc[q] = "commit"
         /\ raced[q]
         /\ RacedRow \in DOMAIN reservations
         /\ RacedRow # req[q].newId
         /\ overlaps(reservations[RacedRow].start, reservations[RacedRow].end,
                     req[q].start, req[q].end)
         /\ Cardinality(Candidates(RacedRow, req[q].newId)) = 1)
            => reservations[RacedRow].table_id # req[q].table

\* outcome of an update of the existing id old by caller p, as its last step
\* leaves it
ReplaceOutcome(p) ==
    LET before == journal.reservations
        old == req[p].id
    IN IF sent'.status = 201
       THEN /\ old \notin DOMAIN reservations'
            /\ \E n \in (DOMAIN reservations') \ (DOMAIN before) :
                  /\ reservations' = Put(Remove(before, old), n, reservations'[n])
                  /\ reservations'[n].start = req[p].start
                  /\ reservations'[n].end = req[p].end
                  /\ reservations'[n].guests = req[p].guests
       ELSE /\ reservations' = before
            /\ sent'.status \in {400, 404, 409}

\* C3: an update of an existing id ends either with the old reservation gone
\* and exactly one new reservation of the requested window and party size, or
\* with the store exactly as it was before the call.
AtomicReplace ==
    [][\A p \in Procs :
          (/\ pc[p] \in {"commit", "rollback"}
           /\ pc'[p] = "idle"
           /\ req[p].id \in DOMAIN journal.reservations)
              => ReplaceOutcome(p)]_vars

\* C3 witness: an update has deleted the old reservation, found no table and
\* is about to roll back.
AtomicReplaceWitness ==
    \E p \in Procs :
        /\ pc[p] = "rollback"
        /\ req[p].err = "ConflictError"
        /\ req[p].id \in DOMAIN journal.reservations
        /\ req[p].id \notin DOMAIN reservations

\* the call of p passed validation and the existence check and ran the
\* availability query
RanQuery(p) ==
    /\ req[p].guests >= MIN_GUESTS
    /\ (req[p].id = Undefined \/ req[p].id \in DOMAIN journal.reservations)

\* C7: with no table qualifying, an update answers 409 and a create 404; a
\* create never answers 409 and an update of an existing id never answers 404.
ErrorKindByCallType ==
    [][\A p \in Procs :
          (pc[p] \in {"commit", "rollback"} /\ pc'[p] = "idle")
              => /\ (pc[p] = "rollback" /\ RanQuery(p))
                     => /\ FreeTables(req[p].start, req[p].end, req[p].guests) = {}
                        /\ sent'.status = IF req[p].id # Undefined THEN 409 ELSE 404
                 /\ req[p].id = Undefined => sent'.status # 409
                 /\ req[p].id \in DOMAIN journal.reservations => sent'.status # 404]_vars

\* C7 witness: an update of an existing id found no table and was answered 409.
ErrorKindWitness ==
    /\ sent.status = 409
    /\ conn = NoProc
    /\ reservations # <<>>

\* C8: an update with valid parameters of an id that matches no reservation
\* answers 404, runs neither the query nor the insert, and leaves the store
\* unchanged.
UpdateMissingId ==
    [][\A p \in Procs :
          (/\ req[p].id # Undefined
           /\ req[p].id \notin DOMAIN journal.reservations
           /\ req[p].guests >= MIN_GUESTS
           /\ pc[p] # pc'[p])
              => /\ pc'[p] \in {"rollback", "idle"}
                 /\ reservations' = journal.reservations
                 /\ pc'[p] = "idle" => sent'.status = 404]_vars

\* C8 witness: the delete step of an update matched no row and aborted the
\* call while a table qualifies for the requested window.
UpdateMissingIdWitness ==
    \E p \in Procs :
        /\ pc[p] = "rollback"
        /\ req[p].err = "NotFoundError"
        /\ req[p].id # Undefined
        /\ req[p].id \notin DOMAIN journal.reservations
        /\ \E t \in DOMAIN tables :
               Qualifies(t, req[p].start, req[p].end, req[p].guests)

\* C9: a delete of an absent id answers 404 and changes nothing; a delete of
\* an existing id removes that reservation and no other; a get of an absent
\* id answers 404.
DeleteSemantics ==
    [][\A p \in Procs : \A id \in IdInputs :
          /\ deleteReservation(p, id)
                => IF id \in DOMAIN reservations
                   THEN /\ sent'.status = 204
                        /\ id \notin DOMAIN reservations'
                        /\ reservations' = Remove(reservations, id)
                   ELSE /\ sent'.status = 404
                        /\ reservations' = reservations
          /\ (getReservationInfo(p, id) /\ id \notin DOMAIN reservations)
                => sent'.status = 404]_vars

\* C9 witness: a delete has just removed an existing reservation.
DeleteWitness ==
    /\ sent.status = 204
    /\ \E id \in IdInputs : id < nextId /\ id \notin DOMAIN reservations

\* C10: the id a success response reports is the id of the row the call
\* inserted, so that a get of the reported id finds that reservation.
ReportedIdIsInsertedId ==
    sent.status = 201
        => /\ sent.location = nextId - 1
           /\ sent.location \in DOMAIN reservations

\* C11: a call whose party size is outside 1..10 or whose duration is outside
\* 0.5 h..6.0 h (2..24 ticks) aborts with the validation error, is answered
\* 400 and neither inserts nor deletes; a call with a well-formed time whose
\* party size and duration lie in the ranges, boundaries included, passes
\* validation.  The step examined is BEGIN with the validation: a call it
\* lets through carries its party size and window in req, a call it aborts
\* is none of the calls with parameters in the ranges.
ValidationBoundaries ==
    [][\A p \in Procs :
          /\ (pc[p] = "pending" /\ conn = NoProc /\ conn' = p)
                => IF pc'[p] = "rollback"
                   THEN /\ req'[p].err = "ValidateError"
                        /\ reservations' = reservations
                        /\ \A g \in GuestInputs \cap (1..10), t \in 0..MaxStart,
                              d \in DurationInputs \cap (2..24) :
                                ~ createOrUpdateReservation(p, req'[p].id, g, t, d)
                   ELSE /\ req'[p].guests \in 1..10
                        /\ (req'[p].end - req'[p].start) \in 2..24
          /\ (pc[p] = "rollback" /\ req[p].err = "ValidateError" /\ pc'[p] = "idle")
                => /\ sent'.to = p
                   /\ sent'.status = 400
                   /\ reservations = journal.reservations
                   /\ reservations' = reservations
                   /\ nextId' = journal.nextId]_vars

\* C11 witness: a call has just been answered 400 while the store holds a
\* reservation made with the boundary values, 1 guest for 6.0 h.
ValidationBoundariesWitness ==
    /\ sent.status = 400
    /\ \E id \in DOMAIN reservations :
          /\ reservations[id].guests = 1
          /\ reservations[id].end - reservations[id].start = 24

\* C12: while an update holds uncommitted changes (its old row deleted, its
\* new row not yet committed, or the call about to roll back), no other
\* caller's get, create, update or delete runs: a waiting caller stays
\* waiting, receives no response and starts no transaction, so it neither
\* reads the intermediate store nor takes the slot the delete freed.
IsolatedReplace ==
    [][\A p \in Procs :
          (/\ conn = p
           /\ req[p].id # Undefined
           /\ reservations # journal.reservations)
              => \A q \in Procs \ {p} :
                    /\ pc'[q] = pc[q] \/ (pc[q] = "idle" /\ pc'[q] = "pending")
                    /\ sent'.to # q
                    /\ req'[q] = req[q]
                    /\ conn' # q]_vars

\* C12 witness: an update has deleted its old row and is about to roll back
\* while another caller's request waits for the connection.
IsolatedReplaceWitness ==
    \E p \in Procs, q \in Procs :
        /\ q # p
        /\ conn = p
        /\ pc[p] = "rollback"
        /\ req[p].id \in DOMAIN journal.reservations
        /\ req[p].id \notin DOMAIN reservations
        /\ pc[q] = "pending"

\* C13: a create with valid parameters for which some table has the capacity
\* and no reservation sharing an instant with the requested window is not
\* rejected: its query finds a table, its insert adds exactly one reservation
\* with the requested start, end and party size, and it is answered 201.
NoFalseRejection ==
    [][\A p \in Procs :
          (req[p].id = Undefined /\ pc'[p] # pc[p])
              => /\ (/\ pc[p] = "select"
                     /\ \E t \in DOMAIN tables :
                           Qualifies(t, req[p].start, req[p].end, req[p].guests))
                        => pc'[p] = "insert"
                 /\ pc[p] = "insert"
                        => /\ pc'[p] = "commit"
                           /\ \E n \in DOMAIN reservations' :
                                 /\ n \notin DOMAIN reservations
                                 /\ DOMAIN reservations' = DOMAIN reservations \cup {n}
                                 /\ reservations'[n].start = req[p].start
                                 /\ reservations'[n].end = req[p].end
                                 /\ reservations'[n].guests = req[p].guests
                 /\ pc[p] = "commit"
                        => /\ sent'.to = p
                           /\ sent'.status = 201
                           /\ reservations' = reservations]_vars

\* C13 witness: a create has inserted its row on a table that qualified while
\* the other table holds a reservation overlapping the requested window.
NoFalseRejectionWitness ==
    \E p \in Procs :
        /\ pc[p] = "commit"
        /\ req[p].id = Undefined
        /\ \E k \in DOMAIN reservations :
              /\ k # req[p].newId
              /\ reservations[k].table_id # req[p].table
              /\ overlaps(reservations[k].start, reservations[k].end,
                          req[p].start, req[p].end)

\* row an update replaces, as the store held it when the call began
OldRow(p) == journal.reservations[req[p].id]

\* would the table of the replaced row take the new window if the replaced
\* row were not there: capacity for the party and no other reservation of
\* that table sharing an instant with the window
OldTableTakesWindow(p) ==
    /\ tables[OldRow(p).table_id] >= req[p].guests
    /\ \A k \in DOMAIN journal.reservations \ {req[p].id} :
          journal.reservations[k].table_id = OldRow(p).table_id
              => ~ overlaps(journal.reservations[k].start, journal.reservations[k].end,
                            req[p].start, req[p].end)

\* C14: the availability query of an update runs on the store with the
\* replaced reservation already removed, so an update whose new window
\* overlaps only its own old window on a table that fits the party finds a
\* table and is answered 201.
ReplacedRowDoesNotBlock ==
    [][\A p \in Procs :
          (req[p].id \in DOMAIN journal.reservations /\ pc'[p] # pc[p])
              => /\ pc[p] = "select"
                    => /\ req[p].id \notin DOMAIN reservations
                       /\ (/\ overlaps(OldRow(p).start, OldRow(p).end,
                                       req[p].start, req[p].end)
                           /\ OldTableTakesWindow(p))
                             => pc'[p] = "insert"
                 /\ pc[p] = "commit" => sent'.status = 201]_vars

\* C14 witness: an update has inserted its new row on the table of the row
\* it replaces, for a window that overlaps the old one.
ReplacedRowWitness ==
    \E p \in Procs :
        /\ pc[p] = "commit"
        /\ req[p].id \in DOMAIN journal.reservations
        /\ req[p].table = OldRow(p).table_id
        /\ overlaps(OldRow(p).start, OldRow(p).end, req[p].start, req[p].end)

\* C15: every stored reservation ends after it starts, lasts between 0.5 h
\* and 6.0 h (2..24 ticks), a length some request can name, and is for a
\* party of 1 to 10; the window a call carries past validation has the same
\* form, its end being its start plus the requested duration.
StoredReservationsWellFormed ==
    /\ \A id \in DOMAIN reservations :
          /\ reservations[id].end > reservations[id].start
          /\ (reservations[id].end - reservations[id].start) \in DurationInputs \cap (2..24)
          /\ reservations[id].guests \in 1..10
    /\ \A p \in Procs :
          pc[p] \in {"del", "select", "insert", "commit"}
              => /\ (req[p].end - req[p].start) \in DurationInputs \cap (2..24)
                 /\ req[p].guests \in 1..10

\* C15 witness: the store holds a reservation of 0.5 h and one of 6.0 h.
StoredReservationsWitness ==
    \E i \in DOMAIN reservations, j \in DOMAIN reservations :
        /\ reservations[i].end - reservations[i].start = 2
        /\ reservations[j].end - reservations[j].start = 24
        /\ reservations[j].guests = 1

\* C16: a stored reservation keeps its table, start, end and party size for
\* as long as it is stored; a step changes the store by at most one row
\* appearing or disappearing, and a row that reappears is the row a rollback
\* restores, with the values it had.
NoInPlaceMutation ==
    [][/\ \A id \in DOMAIN reservations \cap DOMAIN reservations' :
             reservations'[id] = reservations[id]
       /\ Cardinality((DOMAIN reservations \ DOMAIN reservations')
                          \cup (DOMAIN reservations' \ DOMAIN reservations)) <= 1
       /\ \A id \in DOMAIN reservations' \ DOMAIN reservations :
             \/ id = nextId /\ nextId' = nextId + 1
             \/ /\ id \in DOMAIN journal.reservations
                /\ reservations'[id] = journal.reservations[id]]_vars

\* C16 witness: a reservation is still stored after a later reservation was
\* inserted and deleted again.
NoInPlaceMutationWitness ==
    \E id \in DOMAIN reservations :
        \E k \in 1..(nextId - 1) : k > id /\ k \notin DOMAIN reservations

\* C18: an update is validated before its delete and its existence check: an
\* update that reaches the delete, or is answered 404 or 409, carries a party
\* size, a time and a duration that are valid; an update aborted by the
\* validation is answered 400, whether or not its id is stored, and leaves
\* the store, the reservation with that id included, as it was.
ValidationBeforeDelete ==
    [][\A p \in Procs :
          (req'[p].id # Undefined \/ req[p].id # Undefined)
              => /\ (pc[p] = "pending" /\ pc'[p] = "del")
                    => /\ req'[p].guests \in 1..10
                       /\ req'[p].start \in 0..MaxStart
                       /\ (req'[p].end - req'[p].start) \in 2..24
                 /\ (pc[p] = "pending" /\ pc'[p] = "rollback")
                    => /\ req'[p].err = "ValidateError"
                       /\ reservations' = reservations
                 /\ (pc[p] = "rollback" /\ pc'[p] = "idle")
                    => IF req[p].err = "ValidateError"
                       THEN /\ sent'.status = 400
                            /\ reservations = journal.reservations
                            /\ reservations' = reservations
                       ELSE /\ sent'.status \in {404, 409}
                            /\ req[p].guests \in 1..10
                            /\ req[p].start \in 0..MaxStart
                            /\ (req[p].end - req[p].start) \in 2..24]_vars

\* C18 witness: an update of a stored id was aborted by the validation and
\* the reservation with that id is still stored.
ValidationBeforeDeleteWitness ==
    \E p \in Procs :
        /\ pc[p] = "rollback"
        /\ req[p].err = "ValidateError"
        /\ req[p].id \in DOMAIN reservations

\* g is f with the one row id taken away, every other row as it was
MinusRow(f, g, id) ==
    /\ id \in DOMAIN f
    /\ DOMAIN g = DOMAIN f \ {id}
    /\ \A k \in DOMAIN g : g[k] = f[k]

\* g is f with one row added under an id f does not hold, every row of f as
\* it was
PlusOneRow(f, g) ==
    \E n \in DOMAIN g :
        /\ n \notin DOMAIN f
        /\ DOMAIN g = DOMAIN f \cup {n}
        /\ \A k \in DOMAIN f : g[k] = f[k]

\* C19: a successful create leaves the store it found plus exactly one
\* reservation; a successful delete of id takes away exactly that
\* reservation; a successful update of id takes away exactly that
\* reservation and adds exactly one, so that the count is unchanged; in each
\* case every other reservation stays as it was, and no step changes the
\* catalog of tables.
FrameOfSuccess ==
    [][/\ tables' = tables
       /\ \A p \in Procs :
             /\ (pc[p] = "del" /\ pc'[p] = "select")
                    => MinusRow(reservations, reservations', req[p].id)
             /\ (pc[p] = "insert" /\ pc'[p] = "commit")
                    => PlusOneRow(reservations, reservations')
             /\ (pc[p] = "commit" /\ pc'[p] = "idle")
                    => /\ sent'.status = 201
                       /\ reservations' = reservations
                       /\ IF req[p].id = Undefined
                          THEN PlusOneRow(journal.reservations, reservations')
                          ELSE /\ req[p].id \in DOMAIN journal.reservations
                               /\ PlusOneRow([k \in DOMAIN journal.reservations \ {req[p].id}
                                                 |-> journal.reservations[k]],
                                             reservations')
                               /\ Cardinality(DOMAIN reservations')
                                      = Cardinality(DOMAIN journal.reservations)
             /\ \A id \in IdInputs :
                   (deleteReservation(p, id) /\ sent'.status = 204)
                       => MinusRow(reservations, reservations', id)]_vars

\* C19 witness: the delete of an update has taken away the reservation being
\* replaced while another reservation is stored.
FrameOfSuccessWitness ==
    \E p \in Procs :
        /\ pc[p] = "select"
        /\ req[p].id \in DOMAIN journal.reservations
        /\ req[p].id \notin DOMAIN reservations
        /\ reservations # <<>>

====
